---- MODULE Spec2Model ----
(***************************************************************************)
(* A model of src/core/ev.c: the run queue, the timer heap, channels       *)
(* (give / take / select), listeners on pollables and the loop driver      *)
(* janet_loop / janet_loop1.                                               *)
(* Fibers are the external collaborator: a fiber that has been resumed by  *)
(* run_one is the root fiber and may call any of the ev/ functions until   *)
(* it awaits.                                                              *)
(***************************************************************************)
EXTENDS Integers, Sequences, FiniteSets, TLC

(* ---- bounds of the model ---- *)
NFibers == 2
NChans == 2
MaxOps == 4
MaxDelay == 2
MaxClauses == 2
MaxSelects == 1
NPolls == 2
MaxListens == 3
MaxAdds == 5
MaxWhen == 3
MaxPushes == 11
SmallQCapacity == 2
SmallSchedIdValues == 4
MaxNow == 2
MaxCapOps == 5

(* ---- program constants ---- *)
JANET_MAX_Q_CAPACITY == 134217727
\* stands for the 2^32 values of a uint32_t, more than the checker's integers hold
FullWidth == 0

Fibers == 1..NFibers
Chans == 1..NChans
NoFiber == 0
Polls == 1..NPolls

(* ev/chan: channel c is created with capacity c - 1 (channel 1 is unbuffered) *)
Limit(c) == c - 1

VARIABLES
    sched_id,    \* fiber -> JanetFiber.sched_id
    flags,       \* set of fibers whose JANET_FIBER_FLAG_SCHEDULED is set
    spawn,       \* janet_vm_spawn, the run queue of JanetTask
    tq,          \* janet_vm_tq[0 .. janet_vm_tq_count-1], the timer heap
    chans,       \* channel -> [items, read_pending, write_pending]
    now,         \* ts_now()
    pc,          \* where janet_loop is
    root,        \* janet_vm_root_fiber while a fiber runs, NoFiber otherwise
    active_listeners, \* janet_vm_active_listeners
    wait,        \* history: fiber -> the primitive it is suspended in
    wchan,       \* history: fiber -> the channel of the ev/take it is suspended in
    cancelled,   \* history: fiber -> sched_ids at which a cancel released a blocked fiber
    parked,      \* history: the values the second loop of ev/select left in items
    recvd,       \* history: channel -> the last value a fiber was resumed with from it
    last,        \* history: the last event (an API call, a resumption, timers expiring)
    nops,        \* number of API calls made so far
    nsel,        \* number of ev/select calls made so far
    nvals,       \* number of values created so far
    pollables,   \* pollable -> [mask, state], state the list of its listeners, head first
    waiting,     \* fiber -> JanetFiber.waiting, the listener the fiber waits on
    nlisten,     \* number of janet_listen calls made so far
    lhist,       \* history: the listener operation of the last step, if it was one, and
                 \* the events the machines received in it
    janet_vm_fds,          \* janet_vm_fds[0 .. janet_vm_fdcount-1], the pollfd array
    janet_vm_listener_map, \* janet_vm_listener_map[0 .. janet_vm_fdcount-1]
    lindex,      \* listener -> JanetListenerState._index
    hadded,      \* history: the when of every entry given to add_timeout, in order
    hpop,        \* history: the entries pop_timeout(0) removed, in order
    ring,        \* a JanetQueue as stored: [capacity, head, tail, data]
    rpushed,     \* history: number of successful janet_q_push calls on ring
    rpopped,     \* history: number of successful janet_q_pop calls on ring
    rlast,       \* history: the last call on ring, its status and the element popped
    rgrew,       \* history: a push has grown ring while its live segment wrapped
    max_q_capacity, \* the hard cap of the queues: JANET_MAX_Q_CAPACITY, or the cap scaled
                 \* down so that a run can reach it
    sched_id_values, \* the number of values of a sched_id when it is scaled down so that
                 \* a run can wrap around; FullWidth for the uint32_t of the source,
                 \* which no run within the bounds exhausts
    max_ops      \* the number of API calls a run makes at most

\* the listeners and the reactor's arrays
lstate == <<pollables, waiting, nlisten, janet_vm_fds, janet_vm_listener_map, lindex>>

lvars == <<lstate, lhist>>

hvars == <<hadded, hpop>>

rvars == <<ring, rpushed, rpopped, rlast, rgrew>>

scale == <<max_q_capacity, sched_id_values, max_ops>>

vars == <<sched_id, flags, spawn, tq, chans, now, pc, root, active_listeners,
          wait, wchan, cancelled, parked, recvd, last, nops, nsel, nvals, lvars, hvars,
          rvars, scale>>

(* ---- values (Janet) ---- *)
Nil == [k |-> "nil", c |-> 0, v |-> 0]
Val(n) == [k |-> "val", c |-> 0, v |-> n]
ChanVal(c) == [k |-> "chan", c |-> c, v |-> 0]
TimeoutVal == [k |-> "timeout", c |-> 0, v |-> 0]
\* the value every ev/cancel of the model passes
CancelVal == [k |-> "bye", c |-> 0, v |-> 0]

make_write_result(c) == [k |-> "give", c |-> c, v |-> 0]

make_read_result(c, x) == [k |-> "take", c |-> c, v |-> x.v]

Range(q) == {q[i] : i \in 1..Len(q)}

(* ---- General queue ---- *)
janet_q_count(q) == Len(q)

\* 1 when the push fails (the hard cap), 0 otherwise
janet_q_push_status(q) ==
    IF janet_q_count(q) + 1 >= max_q_capacity THEN 1 ELSE 0

\* mutant: the item is stored in front of the queue
Mut_q_push_front(q, item) ==
    IF janet_q_push_status(q) = 1 THEN q ELSE <<item>> \o q

janet_q_push(q, item) ==
    IF janet_q_push_status(q) = 1 THEN q ELSE Append(q, item)

\* 1 when the queue is empty
janet_q_pop_status(q) == IF q = <<>> THEN 1 ELSE 0

janet_q_pop(q) == IF q = <<>> THEN q ELSE Tail(q)

(* ---- General queue, as stored: a ring buffer ---- *)
\* what a slot holds that was never written
Junk == 0

janet_q_init == [capacity |-> 0, head |-> 0, tail |-> 0, data |-> <<>>]

\* q->data[i]
QAt(q, i) == q.data[i + 1]

JanetQueue_count(q) ==
    IF q.head > q.tail THEN q.tail + q.capacity - q.head ELSE q.tail - q.head

\* mutant: the second segment is not moved to the end of the new storage
Mut_QGrow_keeps_segment(q, newcap) ==
    [q EXCEPT !.data = [i \in 1..newcap |-> IF i <= q.capacity THEN q.data[i] ELSE Junk],
              !.capacity = newcap]

\* realloc to newcap slots, then the memmove of the segment [head, capacity)
QGrow(q, newcap) ==
    LET data1 == [i \in 1..newcap |-> IF i <= q.capacity THEN q.data[i] ELSE Junk]
    IN IF q.head > q.tail
       THEN LET newhead == q.head + (newcap - q.capacity)
                seg1 == q.capacity - q.head
            IN [q EXCEPT !.data = [i \in 1..newcap |->
                                     IF i - 1 >= newhead /\ i - 1 < newhead + seg1
                                     THEN data1[(i - 1) - newhead + q.head + 1]
                                     ELSE data1[i]],
                         !.head = newhead,
                         !.capacity = newcap]
       ELSE [q EXCEPT !.data = data1, !.capacity = newcap]

\* [q, status]: status = 1 when the push fails
JanetQueue_push(q, item) ==
    LET count == JanetQueue_count(q)
        newcap == IF (count + 2) * 2 > JANET_MAX_Q_CAPACITY
                  THEN JANET_MAX_Q_CAPACITY ELSE (count + 2) * 2
    IN IF count + 1 >= q.capacity /\ count + 1 >= JANET_MAX_Q_CAPACITY
       THEN [q |-> q, status |-> 1]
       ELSE LET q1 == IF count + 1 >= q.capacity THEN QGrow(q, newcap) ELSE q
            IN [q |-> [q1 EXCEPT !.data[q1.tail + 1] = item,
                                 !.tail = IF q1.tail + 1 < q1.capacity
                                          THEN q1.tail + 1 ELSE 0],
                status |-> 0]

\* [q, status, out]: status = 1 when the queue is empty
JanetQueue_pop(q) ==
    IF q.head = q.tail
    THEN [q |-> q, status |-> 1, out |-> Junk]
    ELSE [q |-> [q EXCEPT !.head = IF q.head + 1 < q.capacity THEN q.head + 1 ELSE 0],
          status |-> 0, out |-> QAt(q, q.head)]

(* ---- Min priority queue of timestamps for timeouts ---- *)
\* janet_vm_tq is indexed from 0 in the source
TqAt(h, i) == h[i + 1]

TqSwap(h, i, j) == [h EXCEPT ![i + 1] = h[j + 1], ![j + 1] = h[i + 1]]

peek_timeout(h) == IF Len(h) = 0 THEN 0 ELSE 1

TqSmallest(h, index) ==
    LET left == 2 * index + 1
        right == left + 1
        s1 == IF left < Len(h) /\ TqAt(h, left).when < TqAt(h, index).when
              THEN left ELSE index
    IN IF right < Len(h) /\ TqAt(h, right).when < TqAt(h, s1).when
       THEN right ELSE s1

RECURSIVE TqSiftDown(_, _)
TqSiftDown(h, index) ==
    LET smallest == TqSmallest(h, index)
    IN IF smallest = index THEN h
       ELSE TqSiftDown(TqSwap(h, index, smallest), smallest)

\* mutant: the entry moved to index is not sifted down
Mut_pop_timeout_no_sift(h, index) ==
    IF Len(h) <= index THEN h
    ELSE LET count == Len(h) - 1
             moved == [h EXCEPT ![index + 1] = h[count + 1]]
         IN SubSeq(moved, 1, count)

pop_timeout(h, index) ==
    IF Len(h) <= index THEN h
    ELSE LET count == Len(h) - 1
             moved == [h EXCEPT ![index + 1] = h[count + 1]]
         IN TqSiftDown(SubSeq(moved, 1, count), index)

RECURSIVE TqSiftUp(_, _)
TqSiftUp(h, index) ==
    IF index = 0 THEN h
    ELSE LET parent == (index - 1) \div 2
         IN IF TqAt(h, parent).when <= TqAt(h, index).when THEN h
            ELSE TqSiftUp(TqSwap(h, index, parent), parent)

add_timeout(h, to) == TqSiftUp(Append(h, to), Len(h))

Timeout(when, f, sid, is_error) ==
    [when |-> when, fiber |-> f, sched_id |-> sid, is_error |-> is_error]

(* ---- the part of the state the scheduling and channel functions change ---- *)
\* at is history: the number of the API call being made
St == [sid |-> sched_id, fl |-> flags, q |-> spawn, ch |-> chans, at |-> nops + 1]

\* src is history: [by, oe, c], the caller, the sched_id recorded in the entry the
\* task comes from, and the channel
Src(by, oe, c) == [by |-> by, oe |-> oe, c |-> c]

\* seq is history: the task is the seq-th that janet_schedule_signal enqueued
Task(f, value, sig, src, seq) ==
    [fiber |-> f, value |-> value, sig |-> sig, src |-> src, seq |-> seq]

\* the number of tasks enqueued so far: every one of them bumped one sched_id
RECURSIVE Scheduled(_, _)
Scheduled(sid, f) == IF f > NFibers THEN 0 ELSE sid[f] + Scheduled(sid, f + 1)

\* fiber->sched_id++ on a uint32_t
NextSchedId(sid) ==
    IF sched_id_values = FullWidth THEN sid + 1 ELSE (sid + 1) % sched_id_values

\* mutant: the SCHEDULED flag is not tested
Mut_schedule_signal_unguarded(S, f, value, sig, src) ==
    [S EXCEPT !.fl = @ \cup {f},
              !.sid[f] = NextSchedId(@),
              !.q = janet_q_push(@, Task(f, value, sig, src, Scheduled(S.sid, 1) + 1))]

\* mutant: the task is put in front of the run queue
Mut_schedule_signal_in_front(S, f, value, sig, src) ==
    IF f \in S.fl THEN S
    ELSE [S EXCEPT !.fl = @ \cup {f},
                   !.sid[f] = NextSchedId(@),
                   !.q = <<Task(f, value, sig, src, Scheduled(S.sid, 1) + 1)>> \o @]

janet_schedule_signal(S, f, value, sig, src) ==
    IF f \in S.fl THEN S
    ELSE [S EXCEPT !.fl = @ \cup {f},
                   !.sid[f] = NextSchedId(@),
                   !.q = janet_q_push(@, Task(f, value, sig, src, Scheduled(S.sid, 1) + 1))]

janet_cancel(S, f, value, src) ==
    janet_schedule_signal(S, f, value, "ERROR", src)

janet_schedule(S, f, value, src) ==
    janet_schedule_signal(S, f, value, "OK", src)

(* ---- Channels ---- *)
\* at is history: the number of the API call that recorded the entry
Pending(f, sid, mode, at) == [fiber |-> f, sched_id |-> sid, mode |-> mode, at |-> at]

NoPending == Pending(NoFiber, 0, "ITEM", 0)

\* the do-while of janet_channel_push: what is left of read_pending when the
\* loop stops, the entry it stopped at still at the head
RECURSIVE SkipStaleReaders(_, _)
SkipStaleReaders(rp, sid) ==
    IF rp = <<>> THEN rp
    ELSE IF Head(rp).sched_id = sid[Head(rp).fiber] THEN rp
    ELSE SkipStaleReaders(Tail(rp), sid)

\* mutant: the writer blocks when the count reaches limit
Mut_channel_push_blocks_at_limit(S, c, x, is_choice, me) ==
    LET rest == SkipStaleReaders(S.ch[c].read_pending, S.sid)
        is_empty == rest = <<>>
    IN IF is_empty
       THEN LET S1 == [S EXCEPT !.ch[c].read_pending = <<>>,
                                !.ch[c].items = janet_q_push(@, x)]
            IN IF janet_q_count(S1.ch[c].items) >= Limit(c)
               THEN [st |-> [S1 EXCEPT !.ch[c].write_pending =
                               janet_q_push(@, Pending(me, S.sid[me],
                                   IF is_choice THEN "CHOICE_WRITE" ELSE "ITEM", S.at))],
                     ret |-> 1, reader |-> NoPending]
               ELSE [st |-> S1, ret |-> 0, reader |-> NoPending]
       ELSE LET reader == Head(rest)
                S1 == [S EXCEPT !.ch[c].read_pending = Tail(rest)]
            IN [st |-> janet_schedule(S1, reader.fiber,
                           IF reader.mode = "CHOICE_READ"
                           THEN make_read_result(c, x) ELSE x,
                           Src("give", reader.sched_id, c)),
                ret |-> 0, reader |-> reader]

\* mutant: the blocked writer is not recorded in write_pending
Mut_channel_push_forgets_writer(S, c, x, is_choice, me) ==
    LET rest == SkipStaleReaders(S.ch[c].read_pending, S.sid)
        is_empty == rest = <<>>
    IN IF is_empty
       THEN LET S1 == [S EXCEPT !.ch[c].read_pending = <<>>,
                                !.ch[c].items = janet_q_push(@, x)]
            IN IF janet_q_count(S1.ch[c].items) > Limit(c)
               THEN [st |-> S1, ret |-> 1, reader |-> NoPending]
               ELSE [st |-> S1, ret |-> 0, reader |-> NoPending]
       ELSE LET reader == Head(rest)
                S1 == [S EXCEPT !.ch[c].read_pending = Tail(rest)]
            IN [st |-> janet_schedule(S1, reader.fiber,
                           IF reader.mode = "CHOICE_READ"
                           THEN make_read_result(c, x) ELSE x,
                           Src("give", reader.sched_id, c)),
                ret |-> 0, reader |-> reader]

\* [st, ret, reader]: ret = 1 when the caller should block, reader the entry popped
janet_channel_push(S, c, x, is_choice, me) ==
    LET rest == SkipStaleReaders(S.ch[c].read_pending, S.sid)
        is_empty == rest = <<>>
    IN IF is_empty
       THEN LET S1 == [S EXCEPT !.ch[c].read_pending = <<>>,
                                !.ch[c].items = janet_q_push(@, x)]
            IN IF janet_q_push_status(S.ch[c].items) = 1
               THEN [st |-> S1, ret |-> 2, reader |-> NoPending]   \* janet_panicf
               ELSE IF janet_q_count(S1.ch[c].items) > Limit(c)
               THEN [st |-> [S1 EXCEPT !.ch[c].write_pending =
                               janet_q_push(@, Pending(me, S.sid[me],
                                   IF is_choice THEN "CHOICE_WRITE" ELSE "ITEM", S.at))],
                     ret |-> 1, reader |-> NoPending]
               ELSE [st |-> S1, ret |-> 0, reader |-> NoPending]
       ELSE LET reader == Head(rest)
                S1 == [S EXCEPT !.ch[c].read_pending = Tail(rest)]
            IN [st |-> janet_schedule(S1, reader.fiber,
                           IF reader.mode = "CHOICE_READ"
                           THEN make_read_result(c, x) ELSE x,
                           Src("give", reader.sched_id, c)),
                ret |-> 0, reader |-> reader]

\* mutant: the item obtained is left in the queue
Mut_channel_pop_keeps_item(S, c, is_choice, me) ==
    IF janet_q_pop_status(S.ch[c].items) = 1
    THEN [st |-> [S EXCEPT !.ch[c].read_pending =
                     janet_q_push(@, Pending(me, S.sid[me],
                         IF is_choice THEN "CHOICE_READ" ELSE "ITEM", S.at))],
          ret |-> 0, item |-> Nil, writer |-> NoPending]
    ELSE LET item == Head(S.ch[c].items)
         IN IF janet_q_pop_status(S.ch[c].write_pending) = 0
            THEN LET writer == Head(S.ch[c].write_pending)
                     S2 == [S EXCEPT !.ch[c].write_pending = janet_q_pop(@)]
                 IN [st |-> janet_schedule(S2, writer.fiber,
                                IF writer.mode = "CHOICE_WRITE"
                                THEN make_write_result(c) ELSE ChanVal(c),
                                Src("take", writer.sched_id, c)),
                     ret |-> 1, item |-> item, writer |-> writer]
            ELSE [st |-> S, ret |-> 1, item |-> item, writer |-> NoPending]

\* mutant: the pending writer is scheduled and left in write_pending
Mut_channel_pop_keeps_writer(S, c, is_choice, me) ==
    IF janet_q_pop_status(S.ch[c].items) = 1
    THEN [st |-> [S EXCEPT !.ch[c].read_pending =
                     janet_q_push(@, Pending(me, S.sid[me],
                         IF is_choice THEN "CHOICE_READ" ELSE "ITEM", S.at))],
          ret |-> 0, item |-> Nil, writer |-> NoPending]
    ELSE LET item == Head(S.ch[c].items)
             S1 == [S EXCEPT !.ch[c].items = janet_q_pop(@)]
         IN IF janet_q_pop_status(S1.ch[c].write_pending) = 0
            THEN LET writer == Head(S1.ch[c].write_pending)
                 IN [st |-> janet_schedule(S1, writer.fiber,
                                IF writer.mode = "CHOICE_WRITE"
                                THEN make_write_result(c) ELSE ChanVal(c),
                                Src("take", writer.sched_id, c)),
                     ret |-> 1, item |-> item, writer |-> writer]
            ELSE [st |-> S1, ret |-> 1, item |-> item, writer |-> NoPending]

\* [st, ret, item, writer]: ret = 1 when an item was obtained, writer the entry popped
janet_channel_pop(S, c, is_choice, me) ==
    IF janet_q_pop_status(S.ch[c].items) = 1
    THEN [st |-> [S EXCEPT !.ch[c].read_pending =
                     janet_q_push(@, Pending(me, S.sid[me],
                         IF is_choice THEN "CHOICE_READ" ELSE "ITEM", S.at))],
          ret |-> 0, item |-> Nil, writer |-> NoPending]
    ELSE LET item == Head(S.ch[c].items)
             S1 == [S EXCEPT !.ch[c].items = janet_q_pop(@)]
         IN IF janet_q_pop_status(S1.ch[c].write_pending) = 0
            THEN LET writer == Head(S1.ch[c].write_pending)
                     S2 == [S1 EXCEPT !.ch[c].write_pending = janet_q_pop(@)]
                 IN [st |-> janet_schedule(S2, writer.fiber,
                                IF writer.mode = "CHOICE_WRITE"
                                THEN make_write_result(c) ELSE ChanVal(c),
                                Src("take", writer.sched_id, c)),
                     ret |-> 1, item |-> item, writer |-> writer]
            ELSE [st |-> S1, ret |-> 1, item |-> item, writer |-> NoPending]

(* ---- ev/select ---- *)
\* a clause is [w, c, x]: a write of x to c when w, a read of c otherwise
Clause(w, c, x) == [w |-> w, c |-> c, x |-> x]

ClauseReady(S, cl) ==
    IF cl.w THEN janet_q_count(S.ch[cl.c].items) < Limit(cl.c)
    ELSE S.ch[cl.c].items # <<>>

\* mutant: the clauses are examined from the last to the first
RECURSIVE Mut_FirstReady_backwards(_, _, _)
Mut_FirstReady_backwards(S, argv, i) ==
    LET j == Len(argv) + 1 - i
    IN IF i > Len(argv) THEN 0
       ELSE IF ClauseReady(S, argv[j]) THEN j
       ELSE Mut_FirstReady_backwards(S, argv, i + 1)

\* the first loop of cfun_channel_choice: the index of the clause it performs, or 0
RECURSIVE FirstReady(_, _, _)
FirstReady(S, argv, i) ==
    IF i > Len(argv) THEN 0
    ELSE IF ClauseReady(S, argv[i]) THEN i
    ELSE FirstReady(S, argv, i + 1)

\* the second loop of cfun_channel_choice, from clause i on
RECURSIVE ChoiceWait(_, _, _, _)
ChoiceWait(S, argv, i, me) ==
    IF i > Len(argv) THEN S
    ELSE IF argv[i].w
    THEN ChoiceWait(janet_channel_push(S, argv[i].c, argv[i].x, TRUE, me).st, argv, i + 1, me)
    ELSE ChoiceWait(janet_channel_pop(S, argv[i].c, TRUE, me).st, argv, i + 1, me)

\* [st, await, ret, idx]: await when the fiber suspends, ret the tuple returned otherwise
cfun_channel_choice(S, argv, me) ==
    LET i == FirstReady(S, argv, 1)
    IN IF i = 0
       THEN [st |-> ChoiceWait(S, argv, 1, me), await |-> TRUE, ret |-> Nil, idx |-> 0]
       ELSE IF argv[i].w
       THEN [st |-> janet_channel_push(S, argv[i].c, argv[i].x, TRUE, me).st,
             await |-> FALSE, ret |-> make_write_result(argv[i].c), idx |-> i]
       ELSE LET R == janet_channel_pop(S, argv[i].c, TRUE, me)
            IN [st |-> R.st, await |-> FALSE,
                ret |-> make_read_result(argv[i].c, R.item), idx |-> i]

(* ---- Listeners ---- *)
JANET_ASYNC_LISTEN_SPAWNER == "SPAWNER"

\* the masks janet_listen is called with: READ and WRITE bits, with or without SPAWNER
Masks == {m \in SUBSET {"READ", "WRITE", JANET_ASYNC_LISTEN_SPAWNER} :
            m \cap {"READ", "WRITE"} # {}}

\* JanetListenerState; id stands for the address malloc returned
ListenerState(id, p, mask, f) == [id |-> id, pollable |-> p, mask |-> mask, fiber |-> f]

\* JanetFiber.waiting: the listener and its pollable, id 0 for NULL
Waiting(id, p) == [id |-> id, p |-> p]

NoListener == Waiting(0, 0)

janet_pollable_init == [mask |-> {}, state |-> <<>>]

\* the part of the state janet_listen_impl and janet_unlisten_impl change;
\* log is history: the events the machines were called with, in order
Ls == [po |-> pollables, wt |-> waiting, al |-> active_listeners, log |-> <<>>]

MachineEvent(id, event) == [id |-> id, event |-> event]

\* mutant: the waiting field of the current fiber is not tested
Mut_listen_impl_overwrites_waiting(L, p, mask, me, id) ==
    IF L.po[p].mask \cap mask # {}
    THEN [ls |-> L, err |-> 1]
    ELSE LET f == IF JANET_ASYNC_LISTEN_SPAWNER \in mask THEN NoFiber ELSE me
             m == mask \cup {JANET_ASYNC_LISTEN_SPAWNER}
             state == ListenerState(id, p, m, f)
         IN [ls |-> [L EXCEPT !.wt = IF f = NoFiber THEN @
                                      ELSE [@ EXCEPT ![me] = Waiting(id, p)],
                              !.po[p].mask = @ \cup m,
                              !.po[p].state = <<state>> \o @,
                              !.al = @ + 1,
                              !.log = Append(@, MachineEvent(id, "INIT"))],
             err |-> 0]

\* [ls, err]: err = 1, 2 for the two panics, 0 when the listener was created
janet_listen_impl(L, p, mask, me, id) ==
    IF L.po[p].mask \cap mask # {}
    THEN [ls |-> L, err |-> 1]
    ELSE IF L.wt[me] # NoListener
    THEN [ls |-> L, err |-> 2]
    ELSE LET f == IF JANET_ASYNC_LISTEN_SPAWNER \in mask THEN NoFiber ELSE me
             m == mask \cup {JANET_ASYNC_LISTEN_SPAWNER}
             state == ListenerState(id, p, m, f)
         IN [ls |-> [L EXCEPT !.wt = IF f = NoFiber THEN @
                                      ELSE [@ EXCEPT ![me] = Waiting(id, p)],
                              !.po[p].mask = @ \cup m,
                              !.po[p].state = <<state>> \o @,
                              !.al = @ + 1,
                              !.log = Append(@, MachineEvent(id, "INIT"))],
             err |-> 0]

\* the list without the listener id
RECURSIVE RemoveState(_, _)
RemoveState(list, id) ==
    IF list = <<>> THEN <<>>
    ELSE IF Head(list).id = id THEN Tail(list)
    ELSE <<Head(list)>> \o RemoveState(Tail(list), id)

\* mutant: the waiting field of the listener's fiber is left as it is
Mut_unlisten_impl_keeps_waiting(L, state) ==
    LET p == state.pollable
    IN [L EXCEPT !.log = Append(@, MachineEvent(state.id, "DEINIT")),
                 !.po[p].state = RemoveState(@, state.id),
                 !.al = @ - 1,
                 !.po[p].mask = @ \ state.mask]

janet_unlisten_impl(L, state) ==
    LET p == state.pollable
        f == state.fiber
    IN [L EXCEPT !.log = Append(@, MachineEvent(state.id, "DEINIT")),
                 !.po[p].state = RemoveState(@, state.id),
                 !.al = @ - 1,
                 !.po[p].mask = @ \ state.mask,
                 !.wt = IF f # NoFiber /\ @[f] = Waiting(state.id, p)
                        THEN [@ EXCEPT ![f] = NoListener] ELSE @]

\* the listener a fiber's waiting field points to
WaitingState(L, f) ==
    CHOOSE st \in Range(L.po[L.wt[f].p].state) : st.id = L.wt[f].id

\* the loop of janet_pollable_deinit over the listeners in list
RECURSIVE janet_pollable_deinit(_, _)
janet_pollable_deinit(L, list) ==
    IF list = <<>> THEN L
    ELSE janet_pollable_deinit(
             janet_unlisten_impl([L EXCEPT !.log = Append(@, MachineEvent(Head(list).id, "CLOSE"))],
                                 Head(list)),
             Tail(list))

(* ---- the reactor built on poll() ---- *)
POLLIN == "POLLIN"

POLLOUT == "POLLOUT"

POLLHUP == "POLLHUP"

POLLERR == "POLLERR"

POLLNVAL == "POLLNVAL"

\* the revents poll() reports for one pollfd
Revents == {{}, {POLLIN}, {POLLOUT}, {POLLIN, POLLOUT}, {POLLHUP}, {POLLERR}, {POLLNVAL}}

make_poll_events(mask) ==
    (IF "READ" \in mask THEN {POLLIN} ELSE {}) \cup (IF "WRITE" \in mask THEN {POLLOUT} ELSE {})

\* struct pollfd; fd is the pollable the handle belongs to
Pollfd(fd, events, revents) == [fd |-> fd, events |-> events, revents |-> revents]

\* the part of the state the reactor's functions change: the listeners, the two
\* parallel arrays, every listener's _index and what janet_schedule changes;
\* ub tells that the behaviour has become undefined, crash that the process has stopped
Pl == [ls |-> Ls, fds |-> janet_vm_fds, map |-> janet_vm_listener_map, idx |-> lindex,
       st |-> St, ub |-> FALSE, crash |-> FALSE]

\* the listener is in the list of its pollable: it has not been freed
Live(P, id) == \E p \in Polls : \E state \in Range(P.ls.po[p].state) : state.id = id

StateOf(P, id) ==
    CHOOSE state \in UNION {Range(P.ls.po[p].state) : p \in Polls} : state.id = id

janet_push_pollfd(P, pfd) == [P EXCEPT !.fds = Append(@, pfd)]

\* [pl, err]: janet_listen of the poll reactor
janet_listen(P, p, mask, me, id) ==
    LET R == janet_listen_impl(P.ls, p, mask, me, id)
    IN IF R.err # 0
       THEN [pl |-> P, err |-> R.err]
       ELSE LET P1 == [P EXCEPT !.ls = R.ls, !.idx[id] = Len(P.fds)]
                P2 == janet_push_pollfd(P1, Pollfd(p, make_poll_events(R.ls.po[p].mask), {}))
            IN [pl |-> [P2 EXCEPT !.map = Append(@, id)], err |-> 0]

\* janet_unlisten of the poll reactor: swap-remove from both arrays, then
\* janet_unlisten_impl. Writing the _index of a replacer that has been freed is
\* undefined
janet_unlisten(P, state) ==
    LET n == Len(P.fds)
        i == P.idx[state.id] + 1
        replacer == P.map[n]
        P1 == [P EXCEPT !.fds = SubSeq([@ EXCEPT ![i] = P.fds[n]], 1, n - 1),
                        !.map = SubSeq([@ EXCEPT ![i] = replacer], 1, n - 1),
                        !.idx[replacer] = i - 1,
                        !.ub = @ \/ ~Live(P, replacer)]
    IN [P1 EXCEPT !.ls = janet_unlisten_impl(@, state)]

janet_fiber_did_resume(P, f) ==
    IF P.ls.wt[f] # NoListener THEN janet_unlisten(P, WaitingState(P.ls, f)) ELSE P

\* the events the loop of janet_loop1_impl calls a machine with, in order
MachineCalls(mask) ==
    (IF POLLOUT \in mask THEN <<"WRITE">> ELSE <<>>)
        \o (IF POLLIN \in mask THEN <<"READ">> ELSE <<>>)

RECURSIVE LogCalls(_, _, _)
LogCalls(log, id, evs) ==
    IF evs = <<>> THEN log
    ELSE LogCalls(Append(log, MachineEvent(id, Head(evs))), id, Tail(evs))

\* one iteration of the loop over the pollfds, for the listener janet_vm_listener_map
\* holds at the position. The machine schedules its fiber when wake, and returns
\* DONE when done. Calling the machine of a listener that has been freed is
\* undefined; when the call goes through as if the memory were intact and the
\* machine returns DONE, janet_unlisten_impl calls it with DEINIT and fails its
\* assertion, since the listener is in no list
StepMachine(P, id, mask, wake, done) ==
    LET evs == MachineCalls(mask)
        P1 == [P EXCEPT !.ls.log = LogCalls(@, id, evs)]
    IN IF ~Live(P, id)
       THEN IF done /\ evs # <<>>
            THEN [P1 EXCEPT !.ls.log = Append(@, MachineEvent(id, "DEINIT")),
                            !.ub = TRUE, !.crash = TRUE]
            ELSE [P1 EXCEPT !.ub = TRUE]
       ELSE LET state == StateOf(P, id)
                P2 == IF wake /\ evs # <<>> /\ state.fiber # NoFiber
                      THEN [P1 EXCEPT !.st = janet_schedule(@, state.fiber, Nil,
                                                            Src("machine", id, 0))]
                      ELSE P1
            IN IF done /\ evs # <<>> THEN janet_unlisten(P2, state) ELSE P2

\* "Step state machines": the loop of janet_loop1_impl from position i on
RECURSIVE janet_loop1_impl(_, _, _, _)
janet_loop1_impl(P, i, wake, done) ==
    IF P.crash \/ i >= Len(P.fds) THEN P
    ELSE LET pfd == P.fds[i + 1]
         IN IF pfd.revents \cap (pfd.events \cup {POLLHUP, POLLERR, POLLNVAL}) = {}
            THEN janet_loop1_impl(P, i + 1, wake, done)
            ELSE janet_loop1_impl(StepMachine(P, P.map[i + 1], pfd.revents, wake, done),
                                  i + 1, wake, done)

\* what poll() may report: rev for the pollfds at the positions in ready, which
\* is one of them or all of them, and nothing for the others
Ready(n) == {{i} : i \in 1..n} \cup {1..n}

Reported(n, ready, rev) == [i \in 1..n |-> IF i \in ready THEN rev ELSE {}]

\* where the process is after a call that may have made the behaviour undefined:
\* it has gone on as if nothing had happened, or it has stopped
AfterCall(P, to) == IF P.crash THEN {"crashed"} ELSE IF P.ub THEN {to, "crashed"} ELSE {to}

\* history of the last listener operation
LEvent(op, p, mask, err, log) == [op |-> op, p |-> p, mask |-> mask, err |-> err, log |-> log]

NoLEvent == LEvent("none", 0, {}, 0, <<>>)

(* ---- history records ---- *)
\* hit is the pending entry a give or a take popped and scheduled, took tells whether
\* janet_schedule_signal enqueued a task for it
Event(op, f, c, ret, hit, took, argv, idx, val, sig) ==
    [op |-> op, f |-> f, c |-> c, ret |-> ret, hit |-> hit, took |-> took,
     argv |-> argv, idx |-> idx, val |-> val, sig |-> sig]

NoEvent == Event("none", NoFiber, 0, 0, NoPending, FALSE, <<>>, 0, Nil, "OK")

(* ---- the initial state: janet_ev_init_common, ev/chan for every channel, ---- *)
(* ---- and ev/call for every fiber                                         ---- *)
janet_chan_init == [items |-> <<>>, read_pending |-> <<>>, write_pending |-> <<>>]

RECURSIVE cfun_ev_call(_, _)
cfun_ev_call(S, f) ==
    IF f > NFibers THEN S
    ELSE cfun_ev_call(janet_schedule(S, f, Nil, Src("go", 0, 0)), f + 1)

\* the state after janet_ev_init and ev/chan for every channel
NoneStarted == [sid |-> [f \in Fibers |-> 0], fl |-> {}, q |-> <<>>,
                ch |-> [c \in Chans |-> janet_chan_init], at |-> 0]

\* the initial state when the fibers have been started as S tells
InitWith(S) ==
       /\ sched_id = S.sid
       /\ flags = S.fl
       /\ spawn = S.q
       /\ chans = S.ch
       /\ tq = <<>>
       /\ now = 0
       /\ pc = "loop"
       /\ root = NoFiber
       /\ active_listeners = 0
       /\ wait = [f \in Fibers |-> "new"]
       /\ wchan = [f \in Fibers |-> 0]
       /\ cancelled = [f \in Fibers |-> {}]
       /\ parked = {}
       /\ recvd = [c \in Chans |-> 0]
       /\ last = NoEvent
       /\ nops = 0
       /\ nsel = 0
       /\ nvals = 0
       /\ pollables = [p \in Polls |-> janet_pollable_init]
       /\ waiting = [f \in Fibers |-> NoListener]
       /\ nlisten = 0
       /\ lhist = NoLEvent
       /\ janet_vm_fds = <<>>
       /\ janet_vm_listener_map = <<>>
       /\ lindex = [id \in 1..MaxListens |-> 0]
       /\ hadded = <<>>
       /\ hpop = <<>>
       /\ ring = janet_q_init
       /\ rpushed = 0
       /\ rpopped = 0
       /\ rlast = [op |-> "none", status |-> 0, out |-> 0]
       /\ rgrew = FALSE

Init ==
    /\ max_q_capacity = JANET_MAX_Q_CAPACITY
    /\ sched_id_values = FullWidth
    /\ max_ops = MaxOps
    /\ InitWith(cfun_ev_call(NoneStarted, 1))

\* sched_id scaled down to SmallSchedIdValues values
InitFair ==
    /\ max_q_capacity = JANET_MAX_Q_CAPACITY
    /\ sched_id_values = SmallSchedIdValues
    /\ max_ops = MaxOps
    /\ InitWith(cfun_ev_call(NoneStarted, 1))

\* the hard cap scaled down to SmallQCapacity, and ev/call for the first fiber only
InitCap ==
    /\ max_q_capacity = SmallQCapacity
    /\ sched_id_values = FullWidth
    /\ max_ops = MaxCapOps
    /\ InitWith(janet_schedule(NoneStarted, 1, Nil, Src("go", 0, 0)))

Commit(S) ==
    /\ sched_id' = S.sid
    /\ flags' = S.fl
    /\ spawn' = S.q
    /\ chans' = S.ch

CommitL(L) ==
    /\ pollables' = L.po
    /\ waiting' = L.wt
    /\ active_listeners' = L.al

\* the revents of a pollfd are read only between poll() and the end of the loop
\* over the pollfds: they are kept cleared outside it
CommitP(P) ==
    /\ CommitL(P.ls)
    /\ janet_vm_fds' = [i \in 1..Len(P.fds) |-> [P.fds[i] EXCEPT !.revents = {}]]
    /\ janet_vm_listener_map' = P.map
    /\ lindex' = P.idx

(* ---- janet_loop ---- *)
LoopCond == active_listeners # 0 \/ spawn # <<>> \/ Len(tq) # 0

\* mutant: an expired entry fires whatever its sched_id
RECURSIVE Mut_ExpireTimers_unchecked(_, _, _, _)
Mut_ExpireTimers_unchecked(h, S, t, stale) ==
    IF peek_timeout(h) = 1 /\ TqAt(h, 0).when <= t
    THEN LET to == TqAt(h, 0)
             h1 == pop_timeout(h, 0)
         IN IF to.is_error
            THEN Mut_ExpireTimers_unchecked(h1, janet_cancel(S, to.fiber, TimeoutVal,
                                  Src("timer", to.sched_id, 0)), t, stale)
            ELSE Mut_ExpireTimers_unchecked(h1, janet_schedule(S, to.fiber, Nil,
                                  Src("timer", to.sched_id, 0)), t, stale)
    ELSE [tq |-> h, st |-> S, stale |-> stale]

\* the first loop of janet_loop1: [tq, st, stale], stale the entries it discarded
RECURSIVE ExpireTimers(_, _, _, _)
ExpireTimers(h, S, t, stale) ==
    IF peek_timeout(h) = 1 /\ TqAt(h, 0).when <= t
    THEN LET to == TqAt(h, 0)
             h1 == pop_timeout(h, 0)
         IN IF S.sid[to.fiber] = to.sched_id
            THEN IF to.is_error
                 THEN ExpireTimers(h1, janet_cancel(S, to.fiber, TimeoutVal,
                                       Src("timer", to.sched_id, 0)), t, stale)
                 ELSE ExpireTimers(h1, janet_schedule(S, to.fiber, Nil,
                                       Src("timer", to.sched_id, 0)), t, stale)
            ELSE ExpireTimers(h1, S, t, stale + 1)
    ELSE [tq |-> h, st |-> S, stale |-> stale]

\* janet_loop, entering janet_loop1: schedule expired timers
LoopEnter ==
    /\ pc = "loop"
    /\ LoopCond
    /\ LET R == ExpireTimers(tq, St, now, 0)
       IN /\ tq' = R.tq
          /\ Commit(R.st)
          /\ last' = IF R.tq = tq THEN last
                     ELSE Event("timers", NoFiber, 0, R.stale, NoPending, FALSE, <<>>, 0, Nil, "OK")
    /\ pc' = "run"
    /\ UNCHANGED <<now, root, active_listeners, wait, wchan, cancelled, parked, recvd, nops, nsel, nvals>>
    /\ lhist' = NoLEvent
    /\ UNCHANGED <<lstate, hvars, rvars, scale>>

LoopExit ==
    /\ pc = "loop"
    /\ ~LoopCond
    /\ pc' = "done"
    /\ UNCHANGED <<sched_id, flags, spawn, tq, chans, now, root, active_listeners,
                   wait, wchan, cancelled, parked, recvd, last, nops, nsel, nvals>>
    /\ lhist' = NoLEvent
    /\ UNCHANGED <<lstate, hvars, rvars, scale>>

\* janet_q_pop and run_one: the fiber continues with (value, sig); continuing a
\* fiber calls janet_fiber_did_resume
RunOne ==
    /\ pc = "run"
    /\ root = NoFiber
    /\ spawn # <<>>
    /\ LET task == Head(spawn)
       IN /\ spawn' = janet_q_pop(spawn)
          /\ flags' = flags \ {task.fiber}
          /\ root' = task.fiber
          /\ wait' = [wait EXCEPT ![task.fiber] = "run"]
          /\ wchan' = [wchan EXCEPT ![task.fiber] = 0]
          /\ recvd' = IF task.src.by \in {"give", "item"}
                      THEN [recvd EXCEPT ![task.src.c] = task.value.v] ELSE recvd
          /\ last' = Event("resume", task.fiber, task.src.c, 0, NoPending, FALSE, <<>>, 0,
                           task.value, task.sig)
          /\ LET P == janet_fiber_did_resume(Pl, task.fiber)
             IN /\ CommitP(P)
                /\ pc' \in AfterCall(P, pc)
                /\ lhist' = IF waiting[task.fiber] = NoListener THEN NoLEvent
                             ELSE LEvent("resume", waiting[task.fiber].p, {}, 0, P.ls.log)
    /\ UNCHANGED <<sched_id, tq, chans, now, cancelled, parked, nops, nsel, nvals, nlisten>>
    /\ UNCHANGED <<hvars, rvars, scale>>

\* the third part of janet_loop1: drop stale timeouts
RECURSIVE DropStale(_, _)
DropStale(h, sid) ==
    IF peek_timeout(h) = 1 /\ sid[TqAt(h, 0).fiber] # TqAt(h, 0).sched_id
    THEN DropStale(pop_timeout(h, 0), sid)
    ELSE h

\* janet_loop1_impl returns when the timeout is due; without a timeout and
\* without a listener nothing ever wakes it
Poll ==
    /\ pc = "run"
    /\ root = NoFiber
    /\ spawn = <<>>
    /\ IF active_listeners # 0 \/ Len(tq) # 0
       THEN LET h == DropStale(tq, sched_id)
                has_timeout == peek_timeout(h)
            IN /\ tq' = h
               /\ IF has_timeout = 1
                  THEN /\ now' = (IF now > TqAt(h, 0).when THEN now ELSE TqAt(h, 0).when)
                       /\ pc' = "loop"
                  ELSE /\ now' = now
                       /\ pc' = "reactor"
       ELSE /\ pc' = "loop"
            /\ UNCHANGED <<tq, now>>
    /\ UNCHANGED <<sched_id, flags, spawn, chans, root, active_listeners, wait, wchan,
                   cancelled, parked, recvd, last, nops, nsel, nvals>>
    /\ lhist' = NoLEvent
    /\ UNCHANGED <<lstate, hvars, rvars, scale>>

(* ---- the API, called by the running fiber ---- *)
Running == pc = "run" /\ root # NoFiber /\ nops < max_ops

\* janet_await: the fiber signals EVENT and control returns to janet_loop1
Suspend(kind) ==
    /\ root' = NoFiber
    /\ wait' = [wait EXCEPT ![root] = kind]
    /\ wchan' = [wchan EXCEPT ![root] = 0]

\* janet_await in ev/take on channel c
SuspendOn(kind, c) ==
    /\ root' = NoFiber
    /\ wait' = [wait EXCEPT ![root] = kind]
    /\ wchan' = [wchan EXCEPT ![root] = c]

\* whether scheduling the fiber of a popped entry enqueues a task
Took(entry) == entry.fiber # NoFiber /\ entry.fiber \notin flags

\* ev/give
cfun_channel_push(c) ==
    /\ Running
    /\ LET x == Val(nvals + 1)
           R == janet_channel_push(St, c, x, FALSE, root)
       IN /\ Commit(R.st)
          /\ IF R.ret = 1 THEN Suspend("give") ELSE UNCHANGED <<root, wait, wchan>>
          /\ last' = Event("give", root, c, R.ret, R.reader, Took(R.reader), <<>>, 0, x, "OK")
    /\ nvals' = nvals + 1
    /\ nops' = nops + 1
    /\ UNCHANGED <<tq, now, pc, active_listeners, cancelled, parked, recvd, nsel>>
    /\ UNCHANGED <<lvars, hvars, rvars, scale>>

\* ev/take
cfun_channel_pop(c) ==
    /\ Running
    /\ LET R == janet_channel_pop(St, c, FALSE, root)
       IN /\ IF R.ret = 1
             THEN Commit(janet_schedule(R.st, root, R.item, Src("item", sched_id[root], c)))
             ELSE Commit(R.st)
          /\ last' = Event("take", root, c, R.ret, R.writer, Took(R.writer), <<>>, 0,
                           R.item, "OK")
    /\ SuspendOn("take", c)
    /\ nops' = nops + 1
    /\ UNCHANGED <<tq, now, pc, active_listeners, cancelled, parked, recvd, nsel, nvals>>
    /\ UNCHANGED <<lvars, hvars, rvars, scale>>

\* the clause lists ev/select is called with: every write clause gets a fresh value
Shapes == UNION {[1..n -> BOOLEAN \X Chans] : n \in 1..MaxClauses}

Argv(shape) == [i \in 1..Len(shape) |-> Clause(shape[i][1], shape[i][2], Val(nvals + i))]

\* ev/select
cfun_channel_choice_call(shape) ==
    /\ Running
    /\ nsel < MaxSelects
    /\ LET argv == Argv(shape)
           R == cfun_channel_choice(St, argv, root)
       IN /\ Commit(R.st)
          /\ IF R.await THEN Suspend("select") ELSE UNCHANGED <<root, wait, wchan>>
          /\ parked' = IF R.await
                       THEN parked \cup
                            {[f |-> root, e |-> sched_id[root], c |-> argv[i].c, v |-> argv[i].x.v] :
                               i \in {j \in 1..Len(argv) :
                                        argv[j].w /\ argv[j].x \in Range(R.st.ch[argv[j].c].items)}}
                       ELSE parked
          /\ last' = Event("select", root, 0, IF R.await THEN 1 ELSE 0, NoPending, FALSE,
                           argv, R.idx, R.ret, "OK")
    /\ nvals' = nvals + Len(shape)
    /\ nops' = nops + 1
    /\ nsel' = nsel + 1
    /\ UNCHANGED <<tq, now, pc, active_listeners, cancelled, recvd>>
    /\ UNCHANGED <<lvars, hvars, rvars, scale>>

\* ev/sleep; ts_delta(ts_now(), sec) is now + d
cfun_ev_sleep(d) ==
    /\ Running
    /\ tq' = add_timeout(tq, Timeout(now + d, root, sched_id[root], FALSE))
    /\ Suspend("sleep")
    /\ last' = Event("sleep", root, 0, 1, NoPending, FALSE, <<>>, 0, Nil, "OK")
    /\ nops' = nops + 1
    /\ UNCHANGED <<sched_id, flags, spawn, chans, now, pc, active_listeners, cancelled,
                   parked, recvd, nsel, nvals>>
    /\ UNCHANGED <<lvars, hvars, rvars, scale>>

\* mutant: the entry records the sched_id the fiber will have once it is scheduled
Mut_addtimeout_next_sched_id(d) ==
    /\ Running
    /\ tq' = add_timeout(tq, Timeout(now + d, root, sched_id[root] + 1, TRUE))
    /\ last' = Event("addtimeout", root, 0, 0, NoPending, FALSE, <<>>, 0, Nil, "OK")
    /\ nops' = nops + 1
    /\ UNCHANGED <<sched_id, flags, spawn, chans, now, pc, root, active_listeners,
                   wait, wchan, cancelled, parked, recvd, nsel, nvals>>
    /\ UNCHANGED <<lvars, hvars, rvars, scale>>

\* janet_addtimeout: the fiber goes on running
janet_addtimeout(d) ==
    /\ Running
    /\ tq' = add_timeout(tq, Timeout(now + d, root, sched_id[root], TRUE))
    /\ last' = Event("addtimeout", root, 0, 0, NoPending, FALSE, <<>>, 0, Nil, "OK")
    /\ nops' = nops + 1
    /\ UNCHANGED <<sched_id, flags, spawn, chans, now, pc, root, active_listeners,
                   wait, wchan, cancelled, parked, recvd, nsel, nvals>>
    /\ UNCHANGED <<lvars, hvars, rvars, scale>>

Blocked(f) == f \notin flags /\ wait[f] \in {"give", "take", "select", "sleep"}

\* ev/cancel
cfun_ev_cancel(g) ==
    /\ Running
    /\ Commit(janet_cancel(St, g, CancelVal, Src("cancel", sched_id[g], 0)))
    /\ cancelled' = [cancelled EXCEPT ![g] = IF Blocked(g) THEN @ \cup {sched_id[g]} ELSE @]
    /\ last' = Event("cancel", root, 0, 0, Pending(g, sched_id[g], "ITEM", 0), g \notin flags,
                     <<>>, 0, CancelVal, "ERROR")
    /\ nops' = nops + 1
    /\ UNCHANGED <<tq, now, pc, root, active_listeners, wait, wchan, parked, recvd, nsel, nvals>>
    /\ UNCHANGED <<lvars, hvars, rvars, scale>>

\* ev/go
cfun_ev_go(g) ==
    /\ Running
    /\ Commit(janet_schedule(St, g, Nil, Src("go", sched_id[g], 0)))
    /\ last' = Event("go", root, 0, 0, Pending(g, sched_id[g], "ITEM", 0), g \notin flags,
                     <<>>, 0, Nil, "OK")
    /\ nops' = nops + 1
    /\ UNCHANGED <<tq, now, pc, root, active_listeners, wait, wchan, cancelled, parked, recvd, nsel, nvals>>
    /\ UNCHANGED <<lvars, hvars, rvars, scale>>

\* the fiber yields to the loop without registering anywhere, or returns
Await ==
    /\ pc = "run"
    /\ root # NoFiber
    /\ Suspend("await")
    /\ UNCHANGED <<sched_id, flags, spawn, tq, chans, now, pc, active_listeners,
                   cancelled, parked, recvd, last, nops, nsel, nvals>>
    /\ lhist' = NoLEvent
    /\ UNCHANGED <<lstate, hvars, rvars, scale>>

(* ---- listeners: the calls of the running fiber and the reactor ---- *)
\* janet_listen; a panic is raised to the fiber, which may catch it and go on
janet_listen_call(p, mask) ==
    /\ pc = "run"
    /\ root # NoFiber
    /\ nlisten < MaxListens
    /\ LET R == janet_listen(Pl, p, mask, root, nlisten + 1)
       IN /\ CommitP(R.pl)
          /\ lhist' = LEvent("listen", p, mask, R.err, R.pl.ls.log)
    /\ nlisten' = nlisten + 1
    /\ UNCHANGED <<sched_id, flags, spawn, tq, chans, now, pc, root,
                   wait, wchan, cancelled, parked, recvd, last, nops, nsel, nvals>>
    /\ UNCHANGED <<hvars, rvars, scale>>

\* janet_pollable_deinit, when the running fiber closes a pollable
janet_pollable_deinit_call(p) ==
    /\ pc = "run"
    /\ root # NoFiber
    /\ pollables[p].state # <<>>
    /\ LET L == janet_pollable_deinit(Ls, pollables[p].state)
       IN /\ CommitL(L)
          /\ lhist' = LEvent("deinit", p, {}, 0, L.log)
    /\ UNCHANGED <<sched_id, flags, spawn, tq, chans, now, pc, root,
                   wait, wchan, cancelled, parked, recvd, last, nops, nsel, nvals, nlisten>>
    /\ UNCHANGED <<janet_vm_fds, janet_vm_listener_map, lindex>>
    /\ UNCHANGED <<hvars, rvars, scale>>

\* janet_loop1_impl without a timeout: poll() returns once it has something to
\* report, and the machines are stepped
janet_loop1_impl_call(ready, rev, wake, done) ==
    /\ pc = "reactor"
    /\ ready \in Ready(Len(janet_vm_fds))
    /\ \A i \in ready : rev \cap {POLLIN, POLLOUT} \subseteq janet_vm_fds[i].events
    /\ LET reported == Reported(Len(janet_vm_fds), ready, rev)
           P0 == [Pl EXCEPT !.fds = [i \in 1..Len(janet_vm_fds) |->
                                        Pollfd(janet_vm_fds[i].fd, janet_vm_fds[i].events,
                                               reported[i])]]
           P == janet_loop1_impl(P0, 0, wake, done)
       IN /\ CommitP(P)
          /\ Commit(P.st)
          /\ lhist' = LEvent("poll", 0, rev, 0, P.ls.log)
          /\ pc' \in AfterCall(P, "loop")
    /\ UNCHANGED <<tq, now, root, wait, wchan, cancelled, parked, recvd, last, nops, nsel, nvals,
                   nlisten>>
    /\ UNCHANGED <<hvars, rvars, scale>>

Next ==
    \/ LoopEnter
    \/ LoopExit
    \/ RunOne
    \/ Poll
    \/ \E c \in Chans : cfun_channel_push(c)
    \/ \E c \in Chans : cfun_channel_pop(c)
    \/ \E shape \in Shapes : cfun_channel_choice_call(shape)
    \/ \E d \in 1..MaxDelay : cfun_ev_sleep(d)
    \/ \E d \in 1..MaxDelay : janet_addtimeout(d)
    \/ \E g \in Fibers : cfun_ev_cancel(g)
    \/ \E g \in Fibers : cfun_ev_go(g)
    \/ Await

Spec == Init /\ [][Next]_vars

\* the fibers use ev/give and ev/take only
NextGiveTake ==
    \/ LoopEnter
    \/ LoopExit
    \/ RunOne
    \/ Poll
    \/ \E c \in Chans : cfun_channel_push(c)
    \/ \E c \in Chans : cfun_channel_pop(c)
    \/ Await

SpecGiveTake == Init /\ [][NextGiveTake]_vars

\* the fibers use the listeners only
NextListen ==
    \/ LoopEnter
    \/ LoopExit
    \/ RunOne
    \/ Poll
    \/ \E p \in Polls : \E mask \in Masks : janet_listen_call(p, mask)
    \/ \E p \in Polls : janet_pollable_deinit_call(p)
    \/ \E ready \in SUBSET (1..MaxListens) : \E rev \in Revents \ {{}} :
          \E wake, done \in BOOLEAN : janet_loop1_impl_call(ready, rev, wake, done)
    \/ Await

SpecListen == Init /\ [][NextListen]_vars

(* ---- the timer heap alone: any sequence of add_timeout and pop_timeout(0) ---- *)
\* the n-th entry added carries sched_id n, which tells the entries apart
TimerAdd(when) ==
    /\ Len(hadded) < MaxAdds
    /\ tq' = add_timeout(tq, Timeout(when, 1, Len(hadded) + 1, FALSE))
    /\ hadded' = Append(hadded, when)
    /\ UNCHANGED <<sched_id, flags, spawn, chans, now, pc, root, active_listeners, wait, wchan,
                   cancelled, parked, recvd, last, nops, nsel, nvals, lvars, hpop, rvars, scale>>

\* peek_timeout and pop_timeout(0); adds is history, the number of entries added so far
TimerPop ==
    /\ peek_timeout(tq) = 1
    /\ hpop' = Append(hpop, [to |-> TqAt(tq, 0), adds |-> Len(hadded)])
    /\ tq' = pop_timeout(tq, 0)
    /\ UNCHANGED <<sched_id, flags, spawn, chans, now, pc, root, active_listeners, wait, wchan,
                   cancelled, parked, recvd, last, nops, nsel, nvals, lvars, hadded, rvars, scale>>

NextHeap ==
    \/ \E when \in 1..MaxWhen : TimerAdd(when)
    \/ TimerPop

SpecHeap == Init /\ [][NextHeap]_vars

(* ---- one JanetQueue alone: any sequence of janet_q_push and janet_q_pop ---- *)
\* the n-th element pushed is n
RingPush ==
    /\ rpushed < MaxPushes
    /\ LET R == JanetQueue_push(ring, rpushed + 1)
       IN /\ ring' = R.q
          /\ rpushed' = IF R.status = 0 THEN rpushed + 1 ELSE rpushed
          /\ rlast' = [op |-> "push", status |-> R.status, out |-> 0]
          /\ rgrew' = (rgrew \/ (R.q.capacity # ring.capacity /\ ring.head > ring.tail))
    /\ rpopped' = rpopped
    /\ UNCHANGED <<sched_id, flags, spawn, tq, chans, now, pc, root, active_listeners, wait, wchan,
                   cancelled, parked, recvd, last, nops, nsel, nvals, lvars, hvars,
                   scale>>

RingPop ==
    /\ LET R == JanetQueue_pop(ring)
       IN /\ ring' = R.q
          /\ rpopped' = IF R.status = 0 THEN rpopped + 1 ELSE rpopped
          /\ rlast' = [op |-> "pop", status |-> R.status, out |-> R.out]
    /\ UNCHANGED <<rpushed, rgrew>>
    /\ UNCHANGED <<sched_id, flags, spawn, tq, chans, now, pc, root, active_listeners, wait, wchan,
                   cancelled, parked, recvd, last, nops, nsel, nvals, lvars, hvars,
                   scale>>

NextRing == RingPush \/ RingPop

SpecRing == Init /\ [][NextRing]_vars

(* ---- the queues with the hard cap within reach: ev/give, ev/take and ev/go ---- *)
NextCap ==
    \/ LoopEnter
    \/ LoopExit
    \/ RunOne
    \/ Poll
    \/ \E c \in Chans : cfun_channel_push(c)
    \/ \E c \in Chans : cfun_channel_pop(c)
    \/ \E g \in Fibers : cfun_ev_go(g)
    \/ Await

SpecCap == InitCap /\ [][NextCap]_vars

(* ---- the loop with fibers that go on for ever: ev/sleep, and fibers that ---- *)
(* ---- schedule themselves and yield, while the clock advances            ---- *)
\* (ev/go (fiber/current)) and janet_await: the running fiber schedules itself
\* and yields to the loop; it may do so any number of times
Respawn ==
    /\ pc = "run"
    /\ root # NoFiber
    /\ Commit(janet_schedule(St, root, Nil, Src("go", sched_id[root], 0)))
    /\ last' = Event("go", root, 0, 0, Pending(root, sched_id[root], "ITEM", 0), TRUE,
                     <<>>, 0, Nil, "OK")
    /\ Suspend("await")
    /\ UNCHANGED <<tq, now, pc, active_listeners, cancelled, parked, recvd, nops, nsel, nvals>>
    /\ UNCHANGED <<lvars, hvars, rvars, scale>>

\* ts_now() advances while the fibers run
Tick ==
    /\ pc = "run"
    /\ now < MaxNow
    /\ now' = now + 1
    /\ UNCHANGED <<sched_id, flags, spawn, tq, chans, pc, root, active_listeners, wait, wchan,
                   cancelled, parked, recvd, last, nops, nsel, nvals>>
    /\ UNCHANGED <<lvars, hvars, rvars, scale>>

\* the running fiber returns to the loop
Yields == Await \/ Respawn \/ \E d \in 1..MaxDelay : cfun_ev_sleep(d)

NextFair ==
    \/ LoopEnter
    \/ LoopExit
    \/ RunOne
    \/ Poll
    \/ \E d \in 1..MaxDelay : cfun_ev_sleep(d)
    \/ Respawn
    \/ Await
    \/ Tick

\* janet_loop goes on while it has something to do, and every fiber that is run
\* yields to the loop after finitely many steps
SpecFair ==
    /\ InitFair
    /\ [][NextFair]_vars
    /\ WF_vars(LoopEnter)
    /\ WF_vars(RunOne)
    /\ WF_vars(Poll)
    /\ WF_vars(Yields)

Tasks == Range(spawn)

Items(c) == Range(chans[c].items)

\* the task comes from an entry a channel or the timer heap held for the fiber
FromEntry(t) == t.src.by \in {"give", "take", "timer"}

(* C1: a fiber cancelled while blocked on a primitive is resumed once with the  *)
(* ERROR signal carrying the cancel value, and no task is ever enqueued for it  *)
(* from an entry (a channel's pending reader or writer, a timer) that it left   *)
(* behind in the wait the cancel ended.                                         *)
C1_CancelledNeverCompletes ==
    /\ \A t \in Tasks : FromEntry(t) => t.src.oe \notin cancelled[t.fiber]
    /\ (last.op = "cancel" /\ last.hit.sched_id \in cancelled[last.hit.fiber]
            /\ last.hit.fiber \in flags)
        => \E t \in Tasks : /\ t.fiber = last.hit.fiber
                            /\ t.sig = "ERROR"
                            /\ t.value = CancelVal

(* C2: when ev/select suspends, exactly one clause takes effect: once the fiber *)
(* has been scheduled through one clause, the value of another, unchosen write  *)
(* clause does not count toward that clause's channel, and the fiber is         *)
(* scheduled from an entry of the select only while that entry is live.         *)
C2_SelectOneClause ==
    /\ \A r \in parked : \A t \in Tasks :
          (/\ t.fiber = r.f
           /\ t.src.by \in {"give", "take"}
           /\ t.src.oe = r.e
           /\ t.value # make_write_result(r.c)) => Val(r.v) \notin Items(r.c)
    /\ \A t \in Tasks :
          (FromEntry(t) /\ t.value.k \in {"give", "take"}) => t.src.oe + 1 = sched_id[t.fiber]

(* C3: on a channel with limit L the items queue holds at most L+1 values. *)
C3_ItemsAtMostLimitPlusOne ==
    \A c \in Chans : janet_q_count(chans[c].items) <= Limit(c) + 1

(* C3, amended: the items queue holds at most L values plus one value for every *)
(* entry of write_pending.                                                      *)
C3_ItemsWithinLimitPlusWriters ==
    \A c \in Chans :
        janet_q_count(chans[c].items) <= Limit(c) + janet_q_count(chans[c].write_pending)

C3_Witness ==
    \E c \in Chans : /\ janet_q_count(chans[c].items) = Limit(c) + 2
                     /\ janet_q_count(chans[c].write_pending) = 2

(* C9: janet_loop returns once the system is idle: it is never waiting in the *)
(* reactor, without a timeout, while no listener is active.                  *)
C9_LoopReturnsWhenIdle == ~(pc = "reactor" /\ active_listeners = 0)

C5_GiveHandsToLiveReader ==
    /\ (last.op = "give" /\ last.hit.fiber # NoFiber)
        => /\ \E t \in Tasks :
                /\ t.fiber = last.hit.fiber
                /\ t.sig = "OK"
                /\ t.value = IF last.hit.mode = "CHOICE_READ"
                             THEN make_read_result(last.c, last.val) ELSE last.val
           /\ last.ret = 0
           /\ last.val \notin Items(last.c)
    /\ (last.op = "give" /\ last.hit.fiber = NoFiber) => last.val \in Items(last.c)
    /\ \A t \in Tasks : t.src.by = "give" => t.src.oe + 1 = sched_id[t.fiber]

(* C6: on a channel, values are received in the order in which they were given, *)
(* a give serves the reader that blocked first and a take wakes the writer that *)
(* blocked first (stale entries excepted).                                      *)
RecvOrder == \A c \in Chans : recvd'[c] # recvd[c] => recvd'[c] > recvd[c]

\* the entry a give hands its value to was recorded before every entry it leaves
ReadersInOrder ==
    (last.op = "give" /\ last.hit.fiber # NoFiber)
    => \A e \in Range(chans[last.c].read_pending) :
          e.at > last.hit.at \/ (e.at = last.hit.at /\ e.fiber = last.hit.fiber)

\* the entry a take pops was recorded before every entry it leaves
WritersInOrder ==
    (last.op = "take" /\ last.hit.fiber # NoFiber)
    => \A e \in Range(chans[last.c].write_pending) :
          e.at > last.hit.at \/ (e.at = last.hit.at /\ e.fiber = last.hit.fiber)

C6_Fifo == [][RecvOrder]_vars /\ [](ReadersInOrder /\ WritersInOrder)

\* the second of two values has just been received, after the first
C6_Witness ==
    /\ last.op = "resume"
    /\ last.val.k = "val"
    /\ last.val.v = 2
    /\ recvd[last.c] = 2
    /\ nops = MaxOps

(* C7: without a live pending reader ev/give appends the value to items and    *)
(* suspends the giver exactly when the item count then exceeds limit; a fiber   *)
(* is scheduled with the channel as its value only by a take on that channel,   *)
(* which schedules the writer whose entry it pops.                              *)
C7_GiveBlocksOverLimit ==
    /\ (last.op = "give" /\ last.hit.fiber = NoFiber)
        => LET items == chans[last.c].items
           IN /\ items # <<>>
              /\ items[Len(items)] = last.val
              /\ (last.ret = 1) <=> (Len(items) > Limit(last.c))
              /\ (last.ret = 1) <=> (wait[last.f] = "give")
    /\ \A t \in Tasks :
          t.value.k = "chan" => (t.src.by = "take" /\ t.src.c = t.value.c /\ t.sig = "OK")
    /\ (last.op = "take" /\ last.ret = 1 /\ last.took /\ last.hit.mode = "ITEM")
        => \E t \in Tasks : t.fiber = last.hit.fiber /\ t.value = ChanVal(last.c)

\* on a channel of limit 1 the second give blocked and a take has just woken it
C7_Witness ==
    /\ last.op = "take"
    /\ Limit(last.c) = 1
    /\ last.took
    /\ last.hit.fiber # last.f
    /\ wait[last.hit.fiber] = "give"
    /\ \E t \in Tasks : t.fiber = last.hit.fiber /\ t.value = ChanVal(last.c)

(* C8: a timer entry fires only if the fiber's sched_id still equals the one   *)
(* recorded in the entry: every task the timer loop enqueues comes from a live  *)
(* entry, with "timeout" as an error or nil.                                    *)
C8_TimerFiresOnlyIfLive ==
    \A t \in Tasks :
        t.src.by = "timer"
        => /\ t.src.oe + 1 = sched_id[t.fiber]
           /\ \/ t.sig = "ERROR" /\ t.value = TimeoutVal
              \/ t.sig = "OK" /\ t.value = Nil

\* a due entry of a fiber scheduled by another cause was discarded while another fired
C8_Witness ==
    /\ last.op = "timers"
    /\ last.ret > 0
    /\ \E t \in Tasks : t.src.by = "timer"

(* C10: if a clause of ev/select is immediately ready, select performs the     *)
(* first ready clause in argument order, returns its tuple without suspending   *)
(* and leaves every other channel unchanged.                                    *)
ReadyBefore(cl) ==
    IF cl.w THEN Len(chans[cl.c].items) < Limit(cl.c) ELSE Len(chans[cl.c].items) > 0

FirstPass ==
    (nops' = nops + 1 /\ last'.op = "select")
    => LET argv == last'.argv
           ready == {i \in 1..Len(argv) : ReadyBefore(argv[i])}
       IN ready # {}
          => LET i == CHOOSE j \in ready : \A k \in ready : j <= k
                 cl == argv[i]
                 before == chans[cl.c]
                 after == chans'[cl.c]
             IN /\ last'.idx = i
                /\ last'.ret = 0
                /\ root' = root
                /\ \A c \in Chans \ {cl.c} : chans'[c] = chans[c]
                /\ cl.w => /\ last'.val = make_write_result(cl.c)
                           /\ after.write_pending = before.write_pending
                           /\ \/ /\ after.items = Append(before.items, cl.x)
                                 /\ after.read_pending = <<>>
                              \/ /\ after.items = before.items
                                 /\ Len(after.read_pending) < Len(before.read_pending)
                /\ ~cl.w => /\ last'.val = make_read_result(cl.c, Head(before.items))
                            /\ after.items = Tail(before.items)
                            /\ after.read_pending = before.read_pending
                            /\ Len(after.write_pending) >= Len(before.write_pending) - 1

C10_SelectFirstReady == [][FirstPass]_vars

\* the first clause was not ready and the second was performed
C10_Witness ==
    /\ last.op = "select"
    /\ last.idx = 2
    /\ root = last.f

(* C11: when the value of a write clause of a suspending ev/select has been     *)
(* handed to another fiber reading the clause's channel, the selecting fiber is *)
(* resumed with [:give ch]: it has a task carrying that tuple, or at least a    *)
(* live writer entry on the channel through which a take can still resume it.   *)
C11_WriteClauseFiredResumes ==
    (last.op = "select" /\ last.ret = 1)
    => \A i \in 1..Len(last.argv) :
          LET cl == last.argv[i]
          IN (/\ cl.w
              /\ \E t \in Tasks : /\ t.fiber # last.f
                                  /\ t.src.by = "give"
                                  /\ t.src.c = cl.c
                                  /\ t.value.k \in {"val", "take"}
                                  /\ t.value.v = cl.x.v)
             => \/ \E t \in Tasks : t.fiber = last.f /\ t.value = make_write_result(cl.c)
                \/ \E e \in Range(chans[cl.c].write_pending) :
                      /\ e.fiber = last.f
                      /\ e.mode = "CHOICE_WRITE"
                      /\ e.sched_id = sched_id[last.f]

(* C12: after ev/cancel has been called on a fiber, whatever the state of that  *)
(* fiber, the task the loop will next resume it with carries the ERROR signal   *)
(* and the value passed to cancel.                                              *)
C12_CancelDelivered ==
    last.op = "cancel"
    => /\ \E t \in Tasks : t.fiber = last.hit.fiber
       /\ \A t \in Tasks :
             t.fiber = last.hit.fiber => (t.sig = "ERROR" /\ t.value = last.val)

(* C13: when janet_loop has returned, every channel with limit L holds at most *)
(* L values in items.                                                          *)
C13_QuiescentItemsAtMostLimit ==
    pc = "done" => \A c \in Chans : janet_q_count(chans[c].items) <= Limit(c)

(* C13, amended: when janet_loop has returned, every channel with limit L      *)
(* holds at most L values plus one for every entry left in write_pending, so   *)
(* at most L when no writer was left blocked.                                  *)
C13_QuiescentItemsWithinWriters ==
    pc = "done"
    => \A c \in Chans :
          /\ janet_q_count(chans[c].items)
                <= Limit(c) + janet_q_count(chans[c].write_pending)
          /\ chans[c].write_pending = <<>> => janet_q_count(chans[c].items) <= Limit(c)

\* the loop returned while a writer was left blocked with its value in items
C13_Witness ==
    /\ pc = "done"
    /\ \E c \in Chans : /\ janet_q_count(chans[c].items) = Limit(c) + 1
                        /\ janet_q_count(chans[c].write_pending) = 1
                        /\ \E f \in Fibers : wait[f] = "give"

(* C14: after any sequence of listen and unlisten calls, a pollable's mask is    *)
(* the union of the masks of the listeners in its list (empty when the list is  *)
(* empty).                                                                      *)
C14_MaskIsUnionOfListeners ==
    \A p \in Polls :
        pollables[p].mask = UNION {st.mask : st \in Range(pollables[p].state)}

(* C15: a listen for an event bit already in the pollable's mask, or by a fiber  *)
(* that already has a waiting listener, raises an error and changes nothing:    *)
(* the pollable lists and masks, the active-listener count and the waiting      *)
(* references are as before, and no machine receives an event.                  *)
ListenRefused ==
    nlisten' = nlisten + 1
    => LET p == lhist'.p
           m == lhist'.mask
       IN (\/ pollables[p].mask \cap m \cap {"READ", "WRITE"} # {}
           \/ waiting[root] # NoListener)
          => /\ lhist'.err # 0
             /\ pollables' = pollables
             /\ waiting' = waiting
             /\ active_listeners' = active_listeners
             /\ lhist'.log = <<>>

C15_ListenErrorChangesNothing == [][ListenRefused]_vars

\* a fiber with a waiting listener called listen for a free event bit and was refused
C15_Witness ==
    /\ lhist.op = "listen"
    /\ lhist.err = 2
    /\ root # NoFiber
    /\ waiting[root] # NoListener
    /\ active_listeners > 0

(* C16: after any sequence of add_timeout and pop_timeout(0) the timer array is *)
(* a min-heap on when (no entry is earlier than its parent), every pop removes  *)
(* an entry with the least when, so that successive pops come in non-decreasing *)
(* order of when, and the entries popped together with those still in the heap  *)
(* are exactly the entries added.                                               *)
HeapProperty ==
    \A i \in 1..(Len(tq) - 1) : TqAt(tq, (i - 1) \div 2).when <= TqAt(tq, i).when

PopsAscend ==
    \A i \in 1..(Len(hpop) - 1) :
        hpop[i].adds = hpop[i + 1].adds => hpop[i].to.when <= hpop[i + 1].to.when

PopsLeast ==
    hpop # <<>> => \A to \in Range(tq) :
                     to.sched_id <= hpop[Len(hpop)].adds => hpop[Len(hpop)].to.when <= to.when

NothingLostOrAdded ==
    LET out == [i \in 1..Len(hpop) |-> hpop[i].to]
        all == out \o tq
    IN /\ Len(all) = Len(hadded)
       /\ \A n \in 1..Len(hadded) :
             \E i \in 1..Len(all) : all[i].sched_id = n /\ all[i].when = hadded[n]

C16_TimerHeapOrdered ==
    HeapProperty /\ PopsAscend /\ PopsLeast /\ NothingLostOrAdded

\* entries were added out of order, one was added between pops, and all came out
C16_Witness ==
    /\ Len(hadded) = MaxAdds
    /\ Len(hpop) = MaxAdds
    /\ hadded[1] > hadded[2]
    /\ hadded[3] > hadded[4]
    /\ hpop[2].adds < hpop[3].adds

(* C17: timer entries with equal when are popped in the order in which they    *)
(* were added.                                                                 *)
C17_EqualTimersInInsertionOrder ==
    \A i, j \in 1..Len(hpop) :
        (i < j /\ hpop[i].to.when = hpop[j].to.when)
        => \/ hpop[i].to.sched_id < hpop[j].to.sched_id
           \/ hpop[i].adds < hpop[j].to.sched_id

(* C18: for any interleaving of janet_q_push and janet_q_pop, also when a push  *)
(* grows the buffer while the live segment wraps, pop returns the elements in   *)
(* the order pushed, none lost or duplicated, janet_q_count is the number of    *)
(* successful pushes minus successful pops, and a pop on the empty queue fails  *)
(* and changes nothing.                                                         *)
\* the elements stored from head to tail
RECURSIVE RingContents(_, _)
RingContents(q, i) ==
    IF i = q.tail THEN <<>>
    ELSE <<QAt(q, i)>> \o RingContents(q, IF i + 1 < q.capacity THEN i + 1 ELSE 0)

RingHoldsPushedMinusPopped ==
    /\ JanetQueue_count(ring) = rpushed - rpopped
    /\ RingContents(ring, ring.head) = [i \in 1..(rpushed - rpopped) |-> rpopped + i]

RingPopStep ==
    rlast'.op = "pop"
    => IF JanetQueue_count(ring) = 0
       THEN rlast'.status = 1 /\ ring' = ring /\ rpopped' = rpopped
       ELSE rlast'.status = 0 /\ rlast'.out = rpopped + 1 /\ rpopped' = rpopped + 1

RingPushStep ==
    rlast'.op = "push" => (rlast'.status = 0 /\ rpushed' = rpushed + 1)

C18_RingQueueFifo ==
    [](RingHoldsPushedMinusPopped) /\ [][RingPopStep /\ RingPushStep]_rvars

\* the buffer grew while wrapped and every element pushed has come out since
C18_Witness ==
    /\ rgrew
    /\ rlast.op = "pop"
    /\ rlast.status = 0
    /\ rlast.out = rpushed
    /\ rpushed >= 6

(* C19: fibers are resumed in the order in which they were scheduled: the run   *)
(* queue holds the tasks in the order janet_schedule_signal enqueued them, and  *)
(* run_one always runs the earliest task not yet run, also when tasks are        *)
(* scheduled while the queue is being drained.                                  *)
QueueInScheduleOrder ==
    \A i \in 1..(Len(spawn) - 1) : spawn[i].seq < spawn[i + 1].seq

RunsEarliest ==
    (root = NoFiber /\ root' # NoFiber)
    => /\ spawn # <<>>
       /\ root' = Head(spawn).fiber
       /\ last'.val = Head(spawn).value
       /\ \A t \in Range(spawn') : t.seq > Head(spawn).seq

C19_ResumedInScheduleOrder == [](QueueInScheduleOrder) /\ [][RunsEarliest]_vars

\* a task scheduled during the drain is behind one scheduled before, which has just run
C19_Witness ==
    /\ last.op = "resume"
    /\ root # NoFiber
    /\ spawn # <<>>
    /\ Head(spawn).src.by \in {"give", "take", "item", "cancel"}
    /\ nops >= 2

(* C20: for every fiber at most one entry among the timer heap and the channel *)
(* pending queues refers to it with the fiber's current sched_id.              *)
\* the entries that carry a sched_id, each with its place
EntriesOf(h, ch) ==
    {[place |-> <<"tq", 0, i>>, fiber |-> h[i].fiber, sched_id |-> h[i].sched_id] :
        i \in 1..Len(h)}
    \cup UNION {{[place |-> <<"read", c, i>>, fiber |-> ch[c].read_pending[i].fiber,
                  sched_id |-> ch[c].read_pending[i].sched_id] :
                    i \in 1..Len(ch[c].read_pending)} : c \in Chans}
    \cup UNION {{[place |-> <<"write", c, i>>, fiber |-> ch[c].write_pending[i].fiber,
                  sched_id |-> ch[c].write_pending[i].sched_id] :
                    i \in 1..Len(ch[c].write_pending)} : c \in Chans}

LiveEntries(f) ==
    {e \in EntriesOf(tq, chans) : e.fiber = f /\ e.sched_id = sched_id[f]}

C20_AtMostOneLiveReference ==
    \A f \in Fibers : Cardinality(LiveEntries(f)) <= 1

(* C20, amended: a fiber may have several live entries (one for every clause of *)
(* a suspended select, and timeouts), but no entry carries a sched_id greater   *)
(* than the fiber's, and whenever the fiber is scheduled all the entries that   *)
(* referred to it before are stale.                                             *)
NoEntryAhead ==
    \A e \in EntriesOf(tq, chans) : e.sched_id <= sched_id[e.fiber]

ScheduleInvalidates ==
    \A f \in Fibers :
        sched_id'[f] # sched_id[f]
        => /\ sched_id'[f] = sched_id[f] + 1
           /\ \A e \in EntriesOf(tq, chans) : e.fiber = f => e.sched_id # sched_id'[f]

C20_ScheduleInvalidatesEntries == [](NoEntryAhead) /\ [][ScheduleInvalidates]_vars

\* a select left two live entries; the fiber was scheduled through one, the other is stale
C20_Witness ==
    \E t \in Tasks :
        /\ last.op \in {"give", "take"}
        /\ last.f # t.fiber
        /\ last.hit.fiber = t.fiber
        /\ last.took
        /\ t.src.by \in {"give", "take"}
        /\ t.src.oe + 1 = sched_id[t.fiber]
        /\ wait[t.fiber] = "select"
        /\ \E e \in EntriesOf(tq, chans) : e.fiber = t.fiber /\ e.sched_id = t.src.oe

(* C21: take never resumes a fiber through a stale pending-writer entry: every *)
(* time a take in one fiber pops a write_pending entry of another fiber and     *)
(* the scheduling enqueues a task for it, the entry was recorded at the         *)
(* sched_id that fiber had when the take scheduled it.                          *)
C21_TakeSkipsStaleWriters ==
    (/\ last.op = "take"
     /\ last.hit.fiber # NoFiber
     /\ last.hit.fiber # last.f
     /\ last.took) => /\ last.hit.sched_id + 1 = sched_id[last.hit.fiber]
                      /\ \A t \in Tasks : (t.fiber = last.hit.fiber /\ t.src.by = "take")
                                                => t.src.oe = last.hit.sched_id

(* C22: when the reactor reports POLLHUP, POLLERR or POLLNVAL on a handle, the *)
(* listener registered for it is called with both READ and WRITE in that       *)
(* wakeup, also when neither POLLIN nor POLLOUT is reported.                   *)
C22_ErrorDeliversReadAndWrite ==
    (lhist.op = "poll" /\ lhist.mask \cap {POLLHUP, POLLERR, POLLNVAL} # {})
        => \E id \in 1..MaxListens :
              /\ MachineEvent(id, "READ") \in Range(lhist.log)
              /\ MachineEvent(id, "WRITE") \in Range(lhist.log)

\* the listeners that have received INIT and not yet DEINIT
LiveIds == {state.id : state \in UNION {Range(pollables[p].state) : p \in Polls}}

\* the machine calls in log, made in order starting with the listeners in live alive,
\* follow the life cycle: INIT goes to a new listener, every other event to a live
\* one, nothing follows DEINIT, and CLOSE is immediately followed by DEINIT
RECURSIVE LifeCycle(_, _, _)
LifeCycle(log, live, new) ==
    IF log = <<>> THEN TRUE
    ELSE LET e == Head(log)
         IN CASE e.event = "INIT" ->
                    /\ e.id = new
                    /\ e.id \notin live
                    /\ LifeCycle(Tail(log), live \cup {e.id}, new)
              [] e.event = "DEINIT" ->
                    /\ e.id \in live
                    /\ LifeCycle(Tail(log), live \ {e.id}, new)
              [] e.event = "CLOSE" ->
                    /\ e.id \in live
                    /\ Len(log) >= 2
                    /\ log[2] = MachineEvent(e.id, "DEINIT")
                    /\ LifeCycle(Tail(log), live, new)
              [] OTHER ->
                    /\ e.id \in live
                    /\ LifeCycle(Tail(log), live, new)

ListenerLifeCycle == lhist' # NoLEvent => LifeCycle(lhist'.log, LiveIds, nlisten + 1)

(* C23: every listener receives INIT once, as its first event, and DEINIT once, *)
(* as its last: after DEINIT the reactor never calls its machine with READ or   *)
(* WRITE, and janet_pollable_deinit calls every listener with CLOSE immediately *)
(* followed by DEINIT.                                                          *)
C23_ListenerLifeCycle == [][ListenerLifeCycle]_vars

\* position i of the two arrays describes a live listener
DescribesLive(i) ==
    LET id == janet_vm_listener_map[i]
    IN /\ id \in LiveIds
       /\ lindex[id] = i - 1
       /\ \E p \in Polls : /\ janet_vm_fds[i].fd = p
                           /\ \E state \in Range(pollables[p].state) : state.id = id

(* C24: in the poll reactor the two parallel arrays describe exactly the live  *)
(* listeners: janet_vm_fdcount equals the active-listener count, and every     *)
(* position below it holds a live listener whose _index is the position and    *)
(* whose pollable's handle is the fd of the pollfd there.                       *)
C24_ArraysDescribeLiveListeners ==
    /\ Len(janet_vm_fds) = active_listeners
    /\ Len(janet_vm_listener_map) = Len(janet_vm_fds)
    /\ \A i \in 1..Len(janet_vm_fds) : DescribesLive(i)

\* a fiber's waiting reference is null or a listener of that fiber in its pollable's list
WaitingIsListed ==
    \A f \in Fibers :
        \/ waiting[f] = NoListener
        \/ \E state \in Range(pollables[waiting[f].p].state) :
              state.id = waiting[f].id /\ state.fiber = f

\* resuming a fiber that has a waiting listener unlistens that listener
ResumeUnlistens ==
    (root = NoFiber /\ root' # NoFiber /\ waiting[root'] # NoListener)
        => LET id == waiting[root'].id
           IN /\ lhist'.log = <<MachineEvent(id, "DEINIT")>>
              /\ \A p \in Polls : \A state \in Range(pollables'[p].state) : state.id # id
              /\ id \notin Range(janet_vm_listener_map')
              /\ Len(janet_vm_fds') = Len(janet_vm_fds) - 1
              /\ active_listeners' = active_listeners - 1
              /\ waiting'[root'] = NoListener

(* C25: when a fiber that has a waiting listener is resumed, the listener is    *)
(* unlistened at once: it receives DEINIT, leaves its pollable's list and the   *)
(* reactor's arrays, the active-listener count drops by one and the fiber's     *)
(* waiting reference is cleared; in every state a fiber's waiting reference is  *)
(* null or a listener of that fiber that is in its pollable's list.             *)
C25_ResumeUnlistensWaiting == [](WaitingIsListed) /\ [][ResumeUnlistens]_vars

\* a fiber was resumed while its listener was still registered
C25_Witness ==
    /\ lhist.op = "resume"
    /\ lhist.log # <<>>
    /\ root # NoFiber
    /\ waiting[root] = NoListener

\* a fiber marked SCHEDULED has a task in the run queue
ScheduledHasTask == \A f \in flags : \E t \in Tasks : t.fiber = f

\* the fiber that has just suspended in ev/give or ev/take left its entry in the
\* channel's queue of pending writers or readers
SuspendedIsRecorded ==
    /\ (last.op = "give" /\ last.ret = 1)
        => \E e \in Range(chans[last.c].write_pending) :
              e.fiber = last.f /\ e.sched_id = sched_id[last.f] /\ e.at = nops
    /\ (last.op = "take" /\ last.ret = 0)
        => \E e \in Range(chans[last.c].read_pending) :
              e.fiber = last.f /\ e.sched_id = sched_id[last.f] /\ e.at = nops

(* C26: a queue push that fails at the hard cap does not go unnoticed:          *)
(* janet_schedule_signal never leaves a fiber marked SCHEDULED, its sched_id    *)
(* advanced, without a task in the run queue, and ev/give and ev/take never     *)
(* suspend a fiber whose pending entry was not recorded.                        *)
C26_NoSilentQueueOverflow == ScheduledHasTask /\ SuspendedIsRecorded

\* the timer heap holds an entry of the fiber whose deadline has passed and whose
\* sched_id is the fiber's
DueLive(f) ==
    \E i \in 1..Len(tq) : /\ tq[i].fiber = f
                          /\ tq[i].sched_id = sched_id[f]
                          /\ tq[i].when <= now

\* the fiber has been scheduled from its timer entry, or the entry is gone or stale
FiredOrStale(f) ==
    \/ \E t \in Tasks : t.fiber = f /\ t.src.by = "timer"
    \/ ~DueLive(f)

(* C27: once its deadline has passed, a timer entry whose fiber is still at the *)
(* recorded sched_id is eventually fired, provided every fiber that is run      *)
(* yields to the loop after finitely many steps, also when other fibers keep    *)
(* yielding and rescheduling themselves so that the run queue is refilled while *)
(* it is drained.                                                               *)
C27_DueTimerEventuallyFires == \A f \in Fibers : DueLive(f) ~> FiredOrStale(f)

\* the task resumes its fiber with the n-th value, bare or as [:take ch v]
Carries(t, n) == t.value.k \in {"val", "take"} /\ t.value.v = n

\* the number of places that hold the n-th value: items queues and tasks
Holders(n) ==
    Cardinality({c \in Chans : Val(n) \in Items(c)})
        + Cardinality({i \in 1..Len(spawn) : Carries(spawn[i], n)})

(* C28: channels conserve values: the value an ev/give has just given is in the *)
(* channel's items queue or on its way to exactly one fiber as its resume value, *)
(* the value an ev/take has just taken out of items is on its way to the taking *)
(* fiber, and no value is held in two places.                                   *)
C28_ValuesConserved ==
    /\ \A n \in 1..nvals : Holders(n) <= 1
    /\ (last.op = "give" /\ last.ret \in {0, 1}) => Holders(last.val.v) = 1
    /\ (last.op = "take" /\ last.ret = 1)
        => \E t \in Tasks : t.fiber = last.f /\ Carries(t, last.val.v)

\* write_pending holds one entry for every item beyond the limit
WritersMatchOverflow ==
    \A c \in Chans :
        janet_q_count(chans[c].write_pending) =
            IF janet_q_count(chans[c].items) > Limit(c)
            THEN janet_q_count(chans[c].items) - Limit(c) ELSE 0

\* an ev/take that obtains an item pops a writer entry exactly when the channel
\* held more items than its limit
TakePopsWriterOnOverflow ==
    (last'.op = "take" /\ nops' = nops + 1 /\ last'.ret = 1)
        => ((last'.hit.fiber # NoFiber)
               <=> janet_q_count(chans[last'.c].items) > Limit(last'.c))

(* C29: for any sequence of give, take and select, the number of entries in    *)
(* write_pending, live or stale, is max(0, count(items) - limit), and a take    *)
(* pops a writer entry exactly when the item count before it exceeded the limit. *)
C29_WritersMatchOverflow == [](WritersMatchOverflow) /\ [][TakePopsWriterOnOverflow]_vars

\* a take popped one of two writer entries of a channel holding two items over its limit
C29_Witness ==
    /\ last.op = "take"
    /\ last.ret = 1
    /\ last.hit.fiber # NoFiber
    /\ janet_q_count(chans[last.c].write_pending) = 1
    /\ janet_q_count(chans[last.c].items) = Limit(last.c) + 1

\* a channel that holds a value has no entry in read_pending
ReadersOnlyOnEmpty ==
    \A c \in Chans :
        janet_q_count(chans[c].items) > 0 => janet_q_count(chans[c].read_pending) = 0

\* a fiber suspended in ev/take that no task will resume
BlockedReader(f, c) ==
    /\ wait[f] = "take"
    /\ wchan[f] = c
    /\ f # root
    /\ f \notin flags

(* C30: in every reachable state a channel whose items queue is non-empty has   *)
(* an empty read_pending queue, and no reader stays blocked on a channel that   *)
(* holds a value.                                                               *)
C30_NoReaderWhileItems ==
    /\ ReadersOnlyOnEmpty
    /\ \A f \in Fibers : \A c \in Chans :
          BlockedReader(f, c) => janet_q_count(chans[c].items) = 0

====
